---- MODULE Spec2Model ----
(***************************************************************************)
(* KMZ/KML to CSV centerline generator (src/app.py).                       *)
(*                                                                         *)
(* Text is a sequence of one-character strings, so that str.split,         *)
(* str.lower, str.endswith, float() and float formatting are computed      *)
(* character by character.  A float is the record [neg, m, e] standing for *)
(* (-1)^neg * m * 10^(-e), kept normalised (no trailing fractional zero).  *)
(***************************************************************************)
EXTENDS Integers, Sequences, FiniteSets, TLC

VARIABLES
    pc,         \* position of main(), or the core function called directly
    uploaded,   \* what st.file_uploader returned
    kml_bytes,  \* main's local kml_bytes
    root,       \* main's local root
    lines,      \* main's local lines
    df,         \* main's local df (rows and the attached _lines attribute)
    csv_bytes,  \* main's local csv_bytes
    txt_bytes,  \* main's local txt_bytes
    download,   \* the archive handed to st.download_button
    ui,         \* the st.* calls made so far, in order
    exc,        \* the exception travelling to main's except clause
    arg,        \* argument of a direct call of a core function
    ret         \* outcome of that call

vars == <<pc, uploaded, kml_bytes, root, lines, df, csv_bytes, txt_bytes,
          download, ui, exc, arg, ret>>

(***************************************************************************)
(* Bounds of the model.                                                    *)
(***************************************************************************)
MaxTokens == 2      \* tokens in a coordinate text given to parse_coordinates_text
MaxElems == 2       \* coordinates elements in a document
MaxEntries == 2     \* entries in an archive

(***************************************************************************)
(* Python values.                                                          *)
(***************************************************************************)
\* None, and the state of a name that is not bound yet; a bound value that
\* may have to be told from these is held as Some(v)
None == [py |-> "None"]
Unset == [py |-> "unbound"]

Some(v) == [py |-> "value", v |-> v]
Raised(e) == [py |-> "raised", exc |-> e]
Returned(v) == [py |-> "returned", v |-> v]

(***************************************************************************)
(* str methods.                                                            *)
(***************************************************************************)
Whitespace == {" ", "\n", "\t"}

UpperChars == <<"A", "K", "M", "L", "Z", "R", "D", "T", "O", "C">>
LowerChars == <<"a", "k", "m", "l", "z", "r", "d", "t", "o", "c">>

char_lower(c) ==
    IF \E i \in 1..Len(UpperChars) : UpperChars[i] = c
    THEN LowerChars[CHOOSE i \in 1..Len(UpperChars) : UpperChars[i] = c]
    ELSE c

str_lower(s) == [i \in 1..Len(s) |-> char_lower(s[i])]

str_endswith(s, suffix) ==
    /\ Len(s) >= Len(suffix)
    /\ SubSeq(s, Len(s) - Len(suffix) + 1, Len(s)) = suffix

RECURSIVE str_lstrip(_)
str_lstrip(s) ==
    IF s # <<>> /\ Head(s) \in Whitespace THEN str_lstrip(Tail(s)) ELSE s

RECURSIVE str_rstrip(_)
str_rstrip(s) ==
    IF s # <<>> /\ s[Len(s)] \in Whitespace
    THEN str_rstrip(SubSeq(s, 1, Len(s) - 1))
    ELSE s

str_strip(s) == str_rstrip(str_lstrip(s))

\* s.split(): runs of whitespace separate the tokens, no empty token
RECURSIVE split_from(_, _, _)
split_from(s, i, cur) ==
    LET flush == IF cur = <<>> THEN <<>> ELSE <<cur>>
    IN  IF i > Len(s) THEN flush
        ELSE IF s[i] \in Whitespace THEN flush \o split_from(s, i + 1, <<>>)
        ELSE split_from(s, i + 1, Append(cur, s[i]))

str_split(s) == split_from(s, 1, <<>>)

\* s.split(sep): every occurrence of sep separates, empty parts are kept
RECURSIVE split_sep_from(_, _, _, _)
split_sep_from(s, sep, i, cur) ==
    IF i > Len(s) THEN <<cur>>
    ELSE IF s[i] = sep THEN <<cur>> \o split_sep_from(s, sep, i + 1, <<>>)
    ELSE split_sep_from(s, sep, i + 1, Append(cur, s[i]))

str_split_sep(s, sep) == split_sep_from(s, sep, 1, <<>>)

(***************************************************************************)
(* float(s) and the formatting of a float (repr), on plain decimal         *)
(* literals: [sign] digits [. [digits]] and [sign] . digits.               *)
(***************************************************************************)
DigitChars == <<"0", "1", "2", "3", "4", "5", "6", "7", "8", "9">>
Digits == {DigitChars[i] : i \in 1..Len(DigitChars)}
DigitVal(c) == (CHOOSE i \in 1..Len(DigitChars) : DigitChars[i] = c) - 1

RECURSIVE digits_to_nat(_)
digits_to_nat(ds) ==
    IF ds = <<>> THEN 0
    ELSE 10 * digits_to_nat(SubSeq(ds, 1, Len(ds) - 1)) + DigitVal(ds[Len(ds)])

RECURSIVE nat_to_digits(_)
nat_to_digits(n) ==
    IF n < 10 THEN <<DigitChars[n + 1]>>
    ELSE Append(nat_to_digits(n \div 10), DigitChars[(n % 10) + 1])

RECURSIVE normalise(_, _, _)
normalise(neg, m, e) ==
    IF e > 0 /\ m % 10 = 0 THEN normalise(neg, m \div 10, e - 1)
    ELSE [neg |-> neg, m |-> m, e |-> e]

AllDigits(s) == \A i \in 1..Len(s) : s[i] \in Digits

\* [ok |-> FALSE] stands for ValueError
float(s) ==
    LET signed == s # <<>> /\ s[1] \in {"+", "-"}
        neg    == s # <<>> /\ s[1] = "-"
        body   == IF signed THEN Tail(s) ELSE s
        parts  == str_split_sep(body, ".")
        int    == parts[1]
        frac   == IF Len(parts) = 2 THEN parts[2] ELSE <<>>
    IN  IF /\ Len(parts) <= 2
           /\ AllDigits(int) /\ AllDigits(frac)
           /\ Len(int) + Len(frac) >= 1
        THEN [ok |-> TRUE,
              val |-> normalise(neg, digits_to_nat(int \o frac), Len(frac))]
        ELSE [ok |-> FALSE]

RECURSIVE zero_pad(_, _)
zero_pad(ds, n) == IF Len(ds) >= n THEN ds ELSE zero_pad(<<"0">> \o ds, n)

\* str(x) of a float x: always a decimal point, ".0" for a whole number
float_repr(x) ==
    LET ds   == zero_pad(nat_to_digits(x.m), x.e + 1)
        int  == SubSeq(ds, 1, Len(ds) - x.e)
        frac == IF x.e = 0 THEN <<"0">> ELSE SubSeq(ds, Len(ds) - x.e + 1, Len(ds))
    IN  (IF x.neg THEN <<"-">> ELSE <<>>) \o int \o <<".">> \o frac

(***************************************************************************)
(* parse_coordinates_text                                                  *)
(***************************************************************************)
RECURSIVE parse_tokens(_, _)
parse_tokens(tokens, coords) ==
    IF tokens = <<>> THEN coords
    ELSE LET parts == str_split_sep(Head(tokens), ",")
             lon   == float(parts[1])
             lat   == float(parts[2])
         IN  IF Len(parts) >= 2
             THEN IF lon.ok /\ lat.ok
                  THEN parse_tokens(Tail(tokens), Append(coords, <<lat.val, lon.val>>))
                  ELSE parse_tokens(Tail(tokens), coords)
             ELSE parse_tokens(Tail(tokens), coords)

\* a variant in which a malformed token ends the loop (break for continue)
RECURSIVE parse_tokens_break(_, _)
parse_tokens_break(tokens, coords) ==
    IF tokens = <<>> THEN coords
    ELSE LET parts == str_split_sep(Head(tokens), ",")
             lon   == float(parts[1])
             lat   == float(parts[2])
         IN  IF Len(parts) >= 2
             THEN IF lon.ok /\ lat.ok
                  THEN parse_tokens_break(Tail(tokens), Append(coords, <<lat.val, lon.val>>))
                  ELSE coords
             ELSE parse_tokens_break(Tail(tokens), coords)

parse_coordinates_text_break(coord_text) ==
    parse_tokens_break(str_split(str_strip(coord_text)), <<>>)

parse_coordinates_text(coord_text) ==
    parse_tokens(str_split(str_strip(coord_text)), <<>>)

(***************************************************************************)
(* Coordinate texts given to parse_coordinates_text.  A text is built from *)
(* tokens, a token from fields; each field of the table carries whether it *)
(* is a number and which one, written down by hand.                        *)
(***************************************************************************)
Num(neg, m, e) == [neg |-> neg, m |-> m, e |-> e]

FieldOne     == [s |-> <<"1">>, num |-> TRUE, val |-> Num(FALSE, 1, 0)]
FieldNeg     == [s |-> <<"-", "2", ".", "5">>, num |-> TRUE, val |-> Num(TRUE, 25, 1)]
FieldWord    == [s |-> <<"x">>, num |-> FALSE]
FieldEmpty   == [s |-> <<>>, num |-> FALSE]
FieldPlus    == [s |-> <<"+", "3">>, num |-> TRUE, val |-> Num(FALSE, 3, 0)]
FieldFrac    == [s |-> <<".", "5", "0">>, num |-> TRUE, val |-> Num(FALSE, 5, 1)]
FieldTen     == [s |-> <<"1", "0", ".">>, num |-> TRUE, val |-> Num(FALSE, 10, 0)]
FieldTwoDots == [s |-> <<"1", ".", "2", ".", "3">>, num |-> FALSE]
FieldSign    == [s |-> <<"-">>, num |-> FALSE]

CoreFields == {FieldOne, FieldNeg, FieldWord}

\* lon / lon,lat / lon,lat,alt over the core fields, and some odd tokens
Tokens ==
    UNION {[1..n -> CoreFields] : n \in 1..2}
    \cup {<<lon, lat, alt>> : lon \in CoreFields, lat \in CoreFields,
                              alt \in {FieldOne, FieldWord}}
    \cup {<<FieldOne, FieldEmpty>>, <<FieldEmpty, FieldOne>>,
          <<FieldPlus, FieldFrac>>, <<FieldTen, FieldOne, FieldEmpty>>,
          <<FieldTwoDots, FieldOne>>, <<FieldOne, FieldSign>>}

RECURSIVE join(_, _)
join(strs, sep) ==
    IF strs = <<>> THEN <<>>
    ELSE IF Len(strs) = 1 THEN strs[1]
    ELSE strs[1] \o sep \o join(Tail(strs), sep)

TokenText(tk) == join([i \in 1..Len(tk) |-> tk[i].s], <<",">>)

\* the text of a coordinates element: tokens on one line, or one per line
\* with indentation, as KML writers produce them
CoordText(tks, padded) ==
    LET sep == IF padded THEN <<"\n", "\t", " ">> ELSE <<" ">>
        body == join([i \in 1..Len(tks) |-> TokenText(tks[i])], sep)
    IN  IF padded THEN sep \o body \o <<"\n">> ELSE body

TokenLists == UNION {[1..n -> Tokens] : n \in 0..MaxTokens}

CoordInputs ==
    {[tokens |-> tks, coord_text |-> CoordText(tks, padded)] :
        tks \in TokenLists, padded \in BOOLEAN}

(***************************************************************************)
(* Documents.  A parsed document is the sequence of its coordinates        *)
(* elements in document order, each with the tag and namespace of its      *)
(* parent element and its text (None for an element without text).         *)
(***************************************************************************)
KML_NS == "http://www.opengis.net/kml/2.2"

ElemKinds ==
    {[parent |-> "LineString", ns |-> KML_NS],
     [parent |-> "Point", ns |-> KML_NS],
     [parent |-> "LineString", ns |-> ""]}

TokA == <<FieldOne, FieldNeg>>
TokB == <<FieldNeg, FieldOne, FieldOne>>
TokBad == <<FieldWord, FieldOne>>

\* the texts of the elements, each with the (latitude, longitude) pairs it
\* stands for, written down by hand
ElemTable ==
    {[text |-> None, want |-> <<>>],
     [text |-> Some(CoordText(<<>>, TRUE)), want |-> <<>>],
     [text |-> Some(CoordText(<<TokA>>, FALSE)),
      want |-> <<<<Num(TRUE, 25, 1), Num(FALSE, 1, 0)>>>>],
     [text |-> Some(CoordText(<<TokB, TokA>>, TRUE)),
      want |-> <<<<Num(FALSE, 1, 0), Num(TRUE, 25, 1)>>,
                 <<Num(TRUE, 25, 1), Num(FALSE, 1, 0)>>>>],
     [text |-> Some(CoordText(<<TokBad>>, FALSE)), want |-> <<>>]}

ElemTexts == {e.text : e \in ElemTable}

Elems == {[parent |-> k.parent, ns |-> k.ns, text |-> t] : k \in ElemKinds, t \in ElemTexts}

Docs == UNION {[1..n -> Elems] : n \in 0..MaxElems}

(***************************************************************************)
(* Byte buffers: nothing, bytes that are neither XML nor a zip archive, a  *)
(* KML document, or a zip archive.  The i-th entry of an archive holds a   *)
(* document of its own, so that the bytes read tell which entry was read.  *)
(***************************************************************************)
EmptyBytes == [kind |-> "empty"]
GarbageBytes == [kind |-> "garbage"]
XmlBytes(doc) == [kind |-> "xml", doc |-> doc]
ZipBytes(names) == [kind |-> "zip", names |-> names]

DocKml == <<"d", "o", "c", ".", "k", "m", "l">>
RootKml == <<"r", "o", "o", "t", ".", "k", "m", "l">>
IndexKml == <<"i", "n", "d", "e", "x", ".", "k", "m", "l">>
DocKmlUpper == <<"D", "O", "C", ".", "K", "M", "L">>
NotesTxt == <<"a", ".", "t", "x", "t">>

EntryNames == {DocKml, RootKml, IndexKml, DocKmlUpper, NotesTxt}

Archives == UNION {[1..n -> EntryNames] : n \in 0..MaxEntries}

EntryBytes(i) ==
    XmlBytes(<<[parent |-> "LineString", ns |-> KML_NS,
                text |-> Some(<<DigitChars[i + 1], ",", DigitChars[i + 1]>>)]>>)

Buffers ==
    {EmptyBytes, GarbageBytes}
    \cup {XmlBytes(d) : d \in Docs}
    \cup {ZipBytes(a) : a \in Archives}

(***************************************************************************)
(* read_kml_from_kmz                                                       *)
(***************************************************************************)
preferred ==
    <<<<"d", "o", "c", ".", "k", "m", "l">>,
      <<"r", "o", "o", "t", ".", "k", "m", "l">>,
      <<"i", "n", "d", "e", "x", ".", "k", "m", "l">>>>

DotKml == <<".", "k", "m", "l">>
DotKmz == <<".", "k", "m", "z">>

InNames(n, names) == \E i \in 1..Len(names) : names[i] = n

\* a variant whose fallback takes the first entry, whatever its name
select_target_first_entry(names) ==
    LET hits == {i \in 1..Len(preferred) : InNames(preferred[i], names)}
        first(S) == CHOOSE i \in S : \A j \in S : i <= j
    IN  IF hits # {} THEN Some(preferred[first(hits)])
        ELSE IF names # <<>> THEN Some(names[1])
        ELSE None

\* a variant that takes the preferred name standing first in the archive
select_target_archive_order(names) ==
    LET hits == {i \in 1..Len(names) : InNames(names[i], preferred)}
        kmls == {i \in 1..Len(names) : str_endswith(str_lower(names[i]), DotKml)}
        first(S) == CHOOSE i \in S : \A j \in S : i <= j
    IN  IF hits # {} THEN Some(names[first(hits)])
        ELSE IF kmls # {} THEN Some(names[first(kmls)])
        ELSE None

\* next((x for x in xs if P(x)), None) is the first x of xs with P
select_target(names) ==
    LET hits == {i \in 1..Len(preferred) : InNames(preferred[i], names)}
        kmls == {i \in 1..Len(names) : str_endswith(str_lower(names[i]), DotKml)}
        first(S) == CHOOSE i \in S : \A j \in S : i <= j
    IN  IF hits # {} THEN Some(preferred[first(hits)])
        ELSE IF kmls # {} THEN Some(names[first(kmls)])
        ELSE None

\* ZipFile.read(name): of several entries of that name, the last one
zip_read(names, name) ==
    EntryBytes(CHOOSE i \in 1..Len(names) :
                  /\ names[i] = name
                  /\ \A j \in 1..Len(names) : names[j] = name => j <= i)

read_kml_from_kmz(kmz_bytes) ==
    IF kmz_bytes.kind # "zip" THEN Raised("BadZipFile")
    ELSE LET target == select_target(kmz_bytes.names)
         IN  IF target # None /\ target.v # <<>>
             THEN Returned(Some(zip_read(kmz_bytes.names, target.v)))
             ELSE Returned(None)

(***************************************************************************)
(* etree.fromstring(kml_bytes, XMLParser(recover=True)).  Bytes in which   *)
(* no root element can be found give, depending on the parser build, an    *)
(* XMLSyntaxError or the root None: both outcomes are kept.                *)
(***************************************************************************)
fromstring(bytes) ==
    IF bytes.kind = "xml" THEN {Returned(Some(bytes.doc))}
    ELSE {Raised("XMLSyntaxError"), Returned(None)}

(***************************************************************************)
(* extract_linestrings                                                     *)
(***************************************************************************)
Matches(el) == el.parent = "LineString" /\ el.ns = KML_NS

\* a variant matching every coordinates element (".//kml:coordinates")
findall_any(doc) == SelectSeq(doc, LAMBDA el : el.ns = KML_NS)

\* root.findall(".//kml:LineString/kml:coordinates", namespaces=KML_NS)
findall(doc) == SelectSeq(doc, Matches)

RECURSIVE collect_lines(_, _)
collect_lines(els, acc) ==
    IF els = <<>> THEN acc
    ELSE LET el == Head(els)
             coords == parse_coordinates_text(el.text.v)
         IN  IF el.text # None /\ el.text.v # <<>>
             THEN IF coords # <<>>
                  THEN collect_lines(Tail(els), Append(acc, coords))
                  ELSE collect_lines(Tail(els), acc)
             ELSE collect_lines(Tail(els), acc)

extract_linestrings(r) ==
    IF r = None THEN Raised("AttributeError")
    ELSE Returned(collect_lines(findall(r.v), <<>>))

(***************************************************************************)
(* The DataFrame: its rows, and the _lines attribute when one was set.     *)
(***************************************************************************)
Row(c) == [Latitude |-> c[1], Longitude |-> c[2], Icon |-> "none", LineStringColor |-> "Red"]

\* a variant in which rows is reset for every segment
build_rows_last_segment(ls) ==
    IF ls = <<>> THEN <<>>
    ELSE [i \in 1..Len(ls[Len(ls)]) |-> Row(ls[Len(ls)][i])]

RECURSIVE build_rows(_)
build_rows(ls) ==
    IF ls = <<>> THEN <<>>
    ELSE [i \in 1..Len(Head(ls)) |-> Row(Head(ls)[i])] \o build_rows(Tail(ls))

DataFrame(rows) == [rows |-> rows, attr_lines |-> Unset]

\* the outcomes of parse_kml(kml_bytes)
parse_kml(bytes) ==
    {IF o.py = "raised" THEN o
     ELSE LET ls == extract_linestrings(o.v)
          IN  IF ls.py = "raised" THEN ls
              ELSE Returned(DataFrame(build_rows(ls.v)))
     : o \in fromstring(bytes)}

(***************************************************************************)
(* The exporters.  An export is the sequence of its text lines.            *)
(***************************************************************************)
RECURSIVE text(_)
text(chars) == IF chars = <<>> THEN "" ELSE Head(chars) \o text(Tail(chars))

CsvHeader == "Latitude,Longitude,Icon,LineStringColor"

CsvRow(r) ==
    text(float_repr(r.Latitude)) \o "," \o text(float_repr(r.Longitude))
        \o "," \o r.Icon \o "," \o r.LineStringColor

dataframe_to_csv_bytes(d) ==
    <<CsvHeader>> \o [i \in 1..Len(d.rows) |-> CsvRow(d.rows[i])]

TxtBlock(line) ==
    <<"Begin Line", "Latitude,Longitude">>
    \o [i \in 1..Len(line) |->
            text(float_repr(line[i][1])) \o "," \o text(float_repr(line[i][2]))]
    \o <<"End Line", "">>

RECURSIVE txt_blocks(_)
txt_blocks(ls) ==
    IF ls = <<>> THEN <<>> ELSE TxtBlock(Head(ls)) \o txt_blocks(Tail(ls))

dataframe_to_txt(d) ==
    LET coords == [i \in 1..Len(d.rows) |-> <<d.rows[i].Latitude, d.rows[i].Longitude>>]
        ls == IF d.attr_lines # Unset THEN d.attr_lines.v ELSE <<coords>>
    IN  txt_blocks(ls)

CSV_FILENAME == "Centerline.csv"
TXT_FILENAME == "Centerline.txt"

(***************************************************************************)
(* main().  st.file_uploader(type=["kmz", "kml"]) filters by extension on  *)
(* a best-effort basis only, so a file of any name can come back from it.  *)
(***************************************************************************)
FileNames ==
    {<<"R", ".", "K", "M", "Z">>,
     <<"r", ".", "k", "m", "l">>,
     <<"r", ".", "t", "x", "t">>}

Uploads == {[name |-> n, data |-> b] : n \in FileNames, b \in Buffers}

St(kind, what) == [st |-> kind, what |-> what]

mainLocals == <<kml_bytes, root, lines, df, csv_bytes, txt_bytes, download, exc>>
callVars == <<arg, ret>>

\* lines 103-106
FileUploader ==
    /\ pc = "start"
    /\ \E u \in Uploads \cup {None} :
          /\ uploaded' = u
          /\ IF u = None
             THEN /\ ui' = Append(ui, St("info", "Awaiting file upload."))
                  /\ pc' = "return"
             ELSE /\ ui' = ui
                  /\ pc' = "unwrap"
    /\ UNCHANGED <<mainLocals, callVars>>

\* lines 109-115
Unwrap ==
    /\ pc = "unwrap"
    /\ IF str_endswith(str_lower(uploaded.name), DotKmz)
       THEN LET r == read_kml_from_kmz(uploaded.data)
            IN  IF r.py = "raised"
                THEN /\ exc' = Some(r.exc)
                     /\ pc' = "except"
                     /\ UNCHANGED <<kml_bytes, ui>>
                ELSE IF r.v = None
                THEN /\ ui' = Append(ui, St("error", "No KML file found inside the KMZ."))
                     /\ pc' = "return"
                     /\ UNCHANGED <<kml_bytes, exc>>
                ELSE /\ kml_bytes' = r.v.v
                     /\ pc' = "parse"
                     /\ UNCHANGED <<ui, exc>>
       ELSE /\ kml_bytes' = uploaded.data
            /\ pc' = "parse"
            /\ UNCHANGED <<ui, exc>>
    /\ UNCHANGED <<uploaded, root, lines, df, csv_bytes, txt_bytes, download, callVars>>

\* lines 117-118
Parse ==
    /\ pc = "parse"
    /\ \E o \in fromstring(kml_bytes) :
          IF o.py = "raised"
          THEN /\ exc' = Some(o.exc)
               /\ pc' = "except"
               /\ root' = root
          ELSE /\ root' = o.v
               /\ pc' = "extract"
               /\ exc' = exc
    /\ UNCHANGED <<uploaded, kml_bytes, lines, df, csv_bytes, txt_bytes, download, ui, callVars>>

\* line 119
Extract ==
    /\ pc = "extract"
    /\ LET r == extract_linestrings(root)
       IN  IF r.py = "raised"
           THEN /\ exc' = Some(r.exc)
                /\ pc' = "except"
                /\ lines' = lines
           ELSE /\ lines' = Some(r.v)
                /\ pc' = "build"
                /\ exc' = exc
    /\ UNCHANGED <<uploaded, kml_bytes, root, df, csv_bytes, txt_bytes, download, ui, callVars>>

\* lines 121-133
Build ==
    /\ pc = "build"
    /\ df' = [DataFrame(build_rows(lines.v)) EXCEPT !.attr_lines = lines]
    /\ pc' = "check"
    /\ UNCHANGED <<uploaded, kml_bytes, root, lines, csv_bytes, txt_bytes, download, ui, exc, callVars>>

\* a variant of lines 135-140 without the return after the warning
CheckEmptyNoReturn ==
    /\ pc = "check"
    /\ IF df.rows = <<>>
       THEN ui' = Append(ui, St("warning", "No LineString geometries found in this file."))
       ELSE ui' = ui \o <<St("subheader", "Extracted centerline points"), St("dataframe", df.rows)>>
    /\ pc' = "export"
    /\ UNCHANGED <<uploaded, mainLocals, callVars>>

\* lines 135-140
CheckEmpty ==
    /\ pc = "check"
    /\ IF df.rows = <<>>
       THEN /\ ui' = Append(ui, St("warning", "No LineString geometries found in this file."))
            /\ pc' = "return"
       ELSE /\ ui' = ui \o <<St("subheader", "Extracted centerline points"), St("dataframe", df.rows)>>
            /\ pc' = "export"
    /\ UNCHANGED <<uploaded, mainLocals, callVars>>

\* lines 142-143
Export ==
    /\ pc = "export"
    /\ csv_bytes' = Some(dataframe_to_csv_bytes(df))
    /\ txt_bytes' = Some(dataframe_to_txt(df))
    /\ pc' = "bundle"
    /\ UNCHANGED <<uploaded, kml_bytes, root, lines, df, download, ui, exc, callVars>>

\* lines 145-157
Bundle ==
    /\ pc = "bundle"
    /\ download' = Some(<<[name |-> CSV_FILENAME, data |-> csv_bytes.v],
                          [name |-> TXT_FILENAME, data |-> txt_bytes.v]>>)
    /\ ui' = Append(ui, St("download_button", "Centerline_Files.zip"))
    /\ pc' = "return"
    /\ UNCHANGED <<uploaded, kml_bytes, root, lines, df, csv_bytes, txt_bytes, exc, callVars>>

\* a variant of lines 159-160 that swallows the exception
ExceptSilent ==
    /\ pc = "except"
    /\ pc' = "return"
    /\ UNCHANGED <<uploaded, mainLocals, callVars, ui>>

\* lines 159-160
Except ==
    /\ pc = "except"
    /\ ui' = Append(ui, St("error", "Error processing file: " \o exc.v))
    /\ pc' = "return"
    /\ UNCHANGED <<uploaded, mainLocals, callVars>>

(***************************************************************************)
(* The core functions called on their own, outside main().                 *)
(***************************************************************************)
Roots == {None} \cup {Some(d) : d \in Docs}

CallReadKmlFromKmz ==
    /\ pc = "start"
    /\ \E b \in Buffers :
          /\ arg' = b
          /\ ret' = read_kml_from_kmz(b)
    /\ pc' = "read_kml_from_kmz"
    /\ UNCHANGED <<uploaded, mainLocals, ui>>

CallExtractLinestrings ==
    /\ pc = "start"
    /\ \E r \in Roots :
          /\ arg' = r
          /\ ret' = extract_linestrings(r)
    /\ pc' = "extract_linestrings"
    /\ UNCHANGED <<uploaded, mainLocals, ui>>

CallParseKml ==
    /\ pc = "start"
    /\ \E b \in Buffers :
          /\ arg' = b
          /\ ret' \in parse_kml(b)
    /\ pc' = "parse_kml"
    /\ UNCHANGED <<uploaded, mainLocals, ui>>

\* dataframe_to_csv_bytes(parse_kml(kml_bytes))
CallDataframeToCsvBytes ==
    /\ pc = "parse_kml"
    /\ ret.py = "returned"
    /\ csv_bytes' = Some(dataframe_to_csv_bytes(ret.v))
    /\ pc' = "dataframe_to_csv_bytes"
    /\ UNCHANGED <<uploaded, kml_bytes, root, lines, df, txt_bytes, download, ui, exc, callVars>>

\* dataframe_to_txt(parse_kml(kml_bytes))
CallDataframeToTxt ==
    /\ pc = "parse_kml"
    /\ ret.py = "returned"
    /\ txt_bytes' = Some(dataframe_to_txt(ret.v))
    /\ pc' = "dataframe_to_txt"
    /\ UNCHANGED <<uploaded, kml_bytes, root, lines, df, csv_bytes, download, ui, exc, callVars>>

Init ==
    /\ pc = "start"
    /\ uploaded = Unset /\ kml_bytes = Unset /\ root = Unset /\ lines = Unset
    /\ df = Unset /\ csv_bytes = Unset /\ txt_bytes = Unset /\ download = Unset
    /\ exc = Unset /\ arg = Unset /\ ret = Unset
    /\ ui = <<>>

Next ==
    \/ FileUploader \/ Unwrap \/ Parse \/ Extract \/ Build \/ CheckEmpty
    \/ Export \/ Bundle \/ Except
    \/ CallReadKmlFromKmz \/ CallExtractLinestrings \/ CallParseKml
    \/ CallDataframeToCsvBytes \/ CallDataframeToTxt

Spec == Init /\ [][Next]_vars

(***************************************************************************)
(* parse_coordinates_text on its own, over every coordinate text.          *)
(***************************************************************************)
InitCoords ==
    /\ pc = "call"
    /\ arg \in CoordInputs
    /\ uploaded = Unset /\ kml_bytes = Unset /\ root = Unset /\ lines = Unset
    /\ df = Unset /\ csv_bytes = Unset /\ txt_bytes = Unset /\ download = Unset
    /\ exc = Unset /\ ret = Unset
    /\ ui = <<>>

CallParseCoordinatesText ==
    /\ pc = "call"
    /\ ret' = Returned(parse_coordinates_text(arg.coord_text))
    /\ pc' = "parse_coordinates_text"
    /\ UNCHANGED <<uploaded, mainLocals, ui, arg>>

NextCoords == CallParseCoordinatesText

SpecCoords == InitCoords /\ [][NextCoords]_vars

(***************************************************************************)
(* What the claims speak of, stated without the operators above.           *)
(***************************************************************************)
\* the lower-cased name ends in ".kml"
EndsInKml(n) ==
    /\ Len(n) >= 4
    /\ n[Len(n) - 3] = "."
    /\ n[Len(n) - 2] \in {"k", "K"}
    /\ n[Len(n) - 1] \in {"m", "M"}
    /\ n[Len(n)] \in {"l", "L"}

Has(names, n) == \E i \in 1..Len(names) : names[i] = n

\* t is the entry name the claim says is read from an archive of these names
Chosen(names, t) ==
    \/ Has(names, DocKml) /\ t = Some(DocKml)
    \/ ~Has(names, DocKml) /\ Has(names, RootKml) /\ t = Some(RootKml)
    \/ /\ ~Has(names, DocKml) /\ ~Has(names, RootKml) /\ Has(names, IndexKml)
       /\ t = Some(IndexKml)
    \/ /\ ~Has(names, DocKml) /\ ~Has(names, RootKml) /\ ~Has(names, IndexKml)
       /\ \E i \in 1..Len(names) :
             /\ EndsInKml(names[i])
             /\ \A j \in 1..(i - 1) : ~EndsInKml(names[j])
             /\ t = Some(names[i])
    \/ /\ ~Has(names, DocKml) /\ ~Has(names, RootKml) /\ ~Has(names, IndexKml)
       /\ \A i \in 1..Len(names) : ~EndsInKml(names[i])
       /\ t = None

\* the bytes of the entry of that name (the last one, should several bear it)
BytesOf(names, t) ==
    IF t = None THEN None
    ELSE Some(EntryBytes(CHOOSE i \in 1..Len(names) :
                 names[i] = t.v /\ \A j \in (i + 1)..Len(names) : names[j] # t.v))

IsKmzName(n) ==
    /\ Len(n) >= 4
    /\ n[Len(n) - 3] = "."
    /\ n[Len(n) - 2] \in {"k", "K"}
    /\ n[Len(n) - 1] \in {"m", "M"}
    /\ n[Len(n)] \in {"z", "Z"}

Uploaded == uploaded # Unset /\ uploaded # None

GoodToken(tk) == Len(tk) >= 2 /\ tk[1].num /\ tk[2].num

WantPairs(tks) ==
    LET good == SelectSeq(tks, GoodToken)
    IN  [i \in 1..Len(good) |-> <<good[i][2].val, good[i][1].val>>]

\* C2: parse_coordinates_text returns, in token order, the pair (field 2,
\* field 1) of every token with at least two fields whose first two fields
\* are numbers, and skips every other token.
C2_PairsOfGoodTokens ==
    pc = "parse_coordinates_text" => ret = Returned(WantPairs(arg.tokens))

C2_Witness ==
    /\ pc = "parse_coordinates_text"
    /\ arg.tokens = <<TokBad, TokB>>
    /\ ret = Returned(<<<<Num(FALSE, 1, 0), Num(TRUE, 25, 1)>>>>)

\* the segments a document stands for, from the table of element texts
Want(el) ==
    IF \E e \in ElemTable : e.text = el.text
    THEN (CHOOSE e \in ElemTable : e.text = el.text).want
    ELSE <<<<Num(FALSE, DigitVal(el.text.v[3]), 0), Num(FALSE, DigitVal(el.text.v[1]), 0)>>>>

UnderLineString(el) == el.parent = "LineString" /\ el.ns = KML_NS
Contributes(el) == UnderLineString(el) /\ Want(el) # <<>>

WantSegments(doc) ==
    LET kept == SelectSeq(doc, Contributes)
    IN  [i \in 1..Len(kept) |-> Want(kept[i])]

RECURSIVE Flat(_)
Flat(segs) == IF segs = <<>> THEN <<>> ELSE Head(segs) \o Flat(Tail(segs))

\* C3: extract_linestrings returns one segment per coordinates element under
\* a LineString that holds a coordinate, in document order, each with that
\* element's coordinates in token order; called directly and from main alike.
C3_SegmentsInDocumentOrder ==
    /\ (pc = "extract_linestrings" /\ arg # None) => ret = Returned(WantSegments(arg.v))
    /\ lines # Unset => lines = Some(WantSegments(root.v))

C3_Witness ==
    /\ pc = "extract_linestrings"
    /\ arg # None
    /\ Len(arg.v) = 2
    /\ UnderLineString(arg.v[1]) /\ arg.v[1].text = Some(CoordText(<<TokB, TokA>>, TRUE))
    /\ UnderLineString(arg.v[2]) /\ arg.v[2].text = Some(CoordText(<<TokA>>, FALSE))
    /\ Len(ret.v) = 2 /\ Len(ret.v[1]) = 2 /\ Len(ret.v[2]) = 1
    /\ ret.v[1][2] = ret.v[2][1]

\* how the numbers of the documents are written in an export
Shown(x) ==
    IF x = Num(TRUE, 25, 1) THEN "-2.5"
    ELSE <<"1.0", "2.0", "3.0", "4.0", "5.0", "6.0", "7.0", "8.0", "9.0">>[x.m]

\* the document the exports are made from
SourceDoc == IF root # Unset THEN root.v ELSE arg.doc

WantCsv(doc) ==
    LET cs == Flat(WantSegments(doc))
    IN  <<"Latitude,Longitude,Icon,LineStringColor">>
        \o [i \in 1..Len(cs) |-> Shown(cs[i][1]) \o "," \o Shown(cs[i][2]) \o ",none,Red"]

WantBlock(seg) ==
    <<"Begin Line", "Latitude,Longitude">>
    \o [i \in 1..Len(seg) |-> Shown(seg[i][1]) \o "," \o Shown(seg[i][2])]
    \o <<"End Line", "">>

WantTxt(doc) ==
    LET segs == WantSegments(doc)
    IN  Flat([i \in 1..Len(segs) |-> WantBlock(segs[i])])

\* C4: the TXT export of a DataFrame made from a document, by parse_kml or
\* by main, holds one Begin Line / Latitude,Longitude / rows / End Line /
\* blank line block per extracted segment, in segment order.
C4_TxtOneBlockPerSegment ==
    txt_bytes # Unset => txt_bytes = Some(WantTxt(SourceDoc))

\* C5: the CSV export is the header Latitude,Longitude,Icon,LineStringColor
\* and one row lat,lon,none,Red per extracted coordinate, the segments
\* concatenated in order, with no marker rows.
C5_CsvRowPerCoordinate ==
    csv_bytes # Unset =>
        /\ csv_bytes = Some(WantCsv(SourceDoc))
        /\ \A i \in 1..Len(csv_bytes.v) :
              csv_bytes.v[i] \notin {"Begin Line", "End Line", "End"}

C5_Witness ==
    /\ pc = "return"
    /\ download # Unset
    /\ root # Unset /\ root # None
    /\ Len(WantSegments(root.v)) = 2
    /\ Len(csv_bytes.v) = 4
    /\ csv_bytes.v[2] = "1.0,-2.5,none,Red"
    /\ csv_bytes.v[4] = "-2.5,1.0,none,Red"

IsKmlName(n) == EndsInKml(n)

NoOutput == csv_bytes = Unset /\ txt_bytes = Unset /\ download = Unset

Shows(kind) == \E i \in 1..Len(ui) : ui[i].st = kind

\* C6: an upload whose name has neither the .kml nor the .kmz extension is
\* rejected: its bytes are never parsed and no output is made.
C6_OtherExtensionRejected ==
    (Uploaded /\ ~IsKmlName(uploaded.name) /\ ~IsKmzName(uploaded.name)) =>
        /\ kml_bytes = Unset /\ root = Unset /\ lines = Unset /\ df = Unset
        /\ NoOutput
        /\ ~Shows("dataframe") /\ ~Shows("download_button")

\* C7: for a .kmz upload whose archive holds no preferred name and no name
\* ending in ".kml", main reports "No KML file found inside the KMZ." and
\* stops: nothing is parsed, extracted or exported, no download is offered.
C7_NoKmlInContainerStops ==
    (/\ Uploaded /\ IsKmzName(uploaded.name) /\ uploaded.data.kind = "zip"
     /\ Chosen(uploaded.data.names, None)) =>
        /\ pc \in {"unwrap", "return"}
        /\ kml_bytes = Unset /\ root = Unset /\ lines = Unset /\ df = Unset
        /\ NoOutput /\ exc = Unset
        /\ pc = "unwrap" => ui = <<>>
        /\ pc = "return" => ui = <<St("error", "No KML file found inside the KMZ.")>>

C7_Witness ==
    /\ pc = "return"
    /\ Uploaded
    /\ uploaded.name = <<"R", ".", "K", "M", "Z">>
    /\ uploaded.data = ZipBytes(<<NotesTxt>>)
    /\ Len(ui) = 1 /\ ui[1].st = "error"

\* C8: when a root was parsed and no coordinate is extracted from it, main
\* ends with the warning alone and no output; a download is offered only
\* when a coordinate was extracted.
C8_EmptyResultWarns ==
    /\ (root # Unset /\ root # None /\ WantSegments(root.v) = <<>>) =>
          /\ NoOutput /\ exc = Unset
          /\ ~Shows("error") /\ ~Shows("dataframe") /\ ~Shows("download_button")
          /\ pc = "return" =>
                ui = <<St("warning", "No LineString geometries found in this file.")>>
    /\ (download # Unset \/ Shows("download_button")) =>
          /\ root # Unset /\ root # None
          /\ Flat(WantSegments(root.v)) # <<>>
          /\ ~Shows("warning")

C8_Witness ==
    /\ pc = "return"
    /\ root # Unset /\ root # None
    /\ Len(root.v) = 1 /\ UnderLineString(root.v[1])
    /\ root.v[1].text = Some(CoordText(<<TokBad>>, FALSE))
    /\ Len(ui) = 1 /\ ui[1].st = "warning"

\* C9: an empty upload buffer always ends in the error report of main's
\* except clause, never in the warning or in a success: no table is shown,
\* no output is made and no download is offered.
C9_EmptyUploadIsError ==
    (Uploaded /\ uploaded.data = EmptyBytes) =>
        /\ df = Unset /\ NoOutput
        /\ ~Shows("warning") /\ ~Shows("dataframe") /\ ~Shows("download_button")
        /\ pc = "return" => (exc # Unset /\ Len(ui) = 1 /\ ui[1].st = "error")

C9_Witness ==
    /\ pc = "return"
    /\ Uploaded
    /\ uploaded.name = <<"r", ".", "k", "m", "l">>
    /\ uploaded.data = EmptyBytes
    /\ Len(ui) = 1 /\ ui[1].st = "error"

\* C10: no failure of a core operation leaves read_kml_from_kmz, parse_kml
\* or extract_linestrings as a raised exception, and every failure inside
\* main ends as a reported error with no output.
C10_NoUncaughtFault ==
    /\ pc \in {"read_kml_from_kmz", "parse_kml", "extract_linestrings"} =>
          ret.py = "returned"
    /\ (pc = "return" /\ exc # Unset) => (Shows("error") /\ NoOutput)

====
